---- MODULE Spec2Model ----
(***************************************************************************)
(* Incremental recompilation cache of ape's project manager                *)
(* (src/ape/managers/project/types.py): _ProjectSources decides which      *)
(* sources need compiling, BaseProject.create_manifest reconciles the      *)
(* cached manifest with the result of the compile call.                    *)
(***************************************************************************)
EXTENDS Integers, Sequences, FiniteSets, TLC

(***************************************************************************)
(* Bounds of the model.                                                    *)
(***************************************************************************)
\* longest file content drawn for the change detector
MaxLen == 2
\* most reference edges one cached source record carries
MaxRefs == 1
\* most create_manifest calls in one behaviour
MaxBuilds == 2

(***************************************************************************)
(* Paths and source ids.  A path is the contracts folder joined with a     *)
(* source id; the source id is the path relative to the contracts folder.  *)
(***************************************************************************)
contracts_folder == "contracts"

Ids == {"A", "B", "C"}

\* contracts_folder.joinpath(Path(s))
joinpath(folder, source_id) == <<folder, source_id>>

Paths == {joinpath(contracts_folder, id) : id \in Ids}

\* the files the build pipeline's project holds
ProjectIds == {"A", "B"}

ProjectPaths == {joinpath(contracts_folder, id) : id \in ProjectIds}

\* get_relative_path(p, contracts_folder): the part of p below the root
get_relative_path(path, root) ==
    IF path[1] = root THEN path[2] ELSE "outside"

\* contracts_folder / source_path: an absolute right operand wins
AbsolutePath(folder, path) ==
    IF Len(path) = 2 THEN path ELSE joinpath(folder, path[1])

(***************************************************************************)
(* File contents are sequences of characters.                              *)
(***************************************************************************)
NL == "\n"

Alphabet == {"f", "g", " ", NL}

Whitespace == {" ", NL}

Texts == UNION {[1..n -> Alphabet] : n \in 0..MaxLen}

\* the contents the build pipeline's files take
EditTexts == {<<"f">>, <<"g">>}

\* contents without a character that is not whitespace
BlankTexts == {<<>>}

\* str.rstrip(): drop every trailing whitespace character
RECURSIVE rstrip(_)
rstrip(text) ==
    IF text = <<>> THEN <<>>
    ELSE IF text[Len(text)] \in Whitespace
         THEN rstrip(SubSeq(text, 1, Len(text) - 1))
         ELSE text

(***************************************************************************)
(* Checksums.  compute_checksum is a collision-free digest of the bytes,   *)
(* different for each algorithm.                                           *)
(***************************************************************************)
Algorithms == {"md5", "sha256"}

CharCode(c) ==
    CASE c = "f" -> 1 [] c = "g" -> 2 [] c = " " -> 3 [] c = NL -> 4

RECURSIVE Digest(_)
Digest(bytes) ==
    IF bytes = <<>> THEN 1
    ELSE Digest(SubSeq(bytes, 1, Len(bytes) - 1)) * 5 + CharCode(bytes[Len(bytes)])

compute_checksum(bytes, algorithm) ==
    Digest(bytes) * 2 + (IF algorithm = "md5" THEN 0 ELSE 1)

\* the content a cached Source record holds for a file: trailing white
\* space stripped and a newline at the end
CachedContent(text) == Append(rstrip(text), NL)

\* Source.calculate_checksum(): the checksum of the cached record
calculate_checksum(cached_source) == cached_source.checksum

(***************************************************************************)
(* State.                                                                  *)
(***************************************************************************)
VARIABLES
    fs,                     \* the contracts folder: path -> [is_file, text]
    cached_manifest,        \* self._cached_manifest: [sources, contract_types]
    cache_files,            \* <cache folder>/<name>.json: name -> contract type
    _contracts,             \* self._contracts: name -> contract type
    pc,                     \* position of the running create_manifest
    buildNo,                \* number of create_manifest calls started
    source_paths,           \* create_manifest: source_paths
    manifest,               \* create_manifest: manifest (_ProjectSources.cached_manifest)
    contract_types,         \* create_manifest: contract_types
    needs_compile,          \* sources_needing_compilation: needs_compile
    sources_to_check_refs,  \* sources_needing_compilation: sources_to_check_refs
    all_referenced_paths,   \* sources_needing_compilation: all_referenced_paths
    srcs_to_compile,        \* _compile_sources: srcs_to_compile
    compiled_contract_types,\* create_manifest: compiled_contract_types
    failed_paths,           \* the paths the compile call failed for
    last                    \* what the build before the running one saw and did

vars == <<fs, cached_manifest, cache_files, _contracts, pc, buildNo, source_paths,
          manifest, contract_types, needs_compile, sources_to_check_refs,
          all_referenced_paths, srcs_to_compile, compiled_contract_types,
          failed_paths, last>>

EmptyMap == [x \in {} |-> x]

\* PackageManifest()
EmptyManifest == [sources |-> EmptyMap, contract_types |-> EmptyMap]

NoFile == [is_file |-> FALSE, text |-> <<>>]

File(text) == [is_file |-> TRUE, text |-> text]

\* Path.is_file()
is_file(path) == path \in DOMAIN fs /\ fs[path].is_file

\* Path.read_text("utf8")
read_text(path) == fs[path].text

\* a read_text that never raises
can_read_anything(path) == TRUE

\* Path.read_text succeeds: the file is there to be read (line 89)
can_read(path) == is_file(path)

\* create_manifest is not running: it was never called, returned, or raised
\* out of the compile call or out of change detection
Returned == {"idle", "done", "failed", "ioerror"}

NoLast == [outcome |-> "none", srcs |-> {}, failed |-> {}, source_paths |-> {},
           fs |-> [p \in Paths |-> NoFile],
           cached_manifest |-> EmptyManifest, cache_files |-> EmptyMap]

(***************************************************************************)
(* _ProjectSources                                                         *)
(***************************************************************************)
\* cached_sources (lines 33-35)
cached_sources == manifest.sources

\* _source_reference_paths (lines 69-74)
_source_reference_paths ==
    [source_id \in DOMAIN cached_sources |->
        {joinpath(contracts_folder, s) : s \in cached_sources[source_id].references}]

\* the referenced paths without the is_file filter
reference_paths_unfiltered(source_id) ==
    IF source_id \in DOMAIN _source_reference_paths
    THEN _source_reference_paths[source_id]
    ELSE {}

\* _source_reference_paths.get(source_id, []) filtered by is_file (lines 60-62)
reference_paths(source_id) ==
    IF source_id \in DOMAIN _source_reference_paths
    THEN {s \in _source_reference_paths[source_id] : is_file(s)}
    ELSE {}

\* a change detector that hashes the raw text of the file
check_needs_compiling_raw(source_path) ==
    LET source_id == get_relative_path(source_path, contracts_folder)
    IN  IF source_id \notin DOMAIN cached_sources THEN TRUE
        ELSE LET cached_checksum == calculate_checksum(cached_sources[source_id])
                 content == read_text(AbsolutePath(contracts_folder, source_path))
             IN  compute_checksum(content, cached_checksum.algorithm)
                     # cached_checksum.hash

\* a change detector that never reports a source the cache does not know
check_needs_compiling_cached_only(source_path) ==
    LET source_id == get_relative_path(source_path, contracts_folder)
    IN  IF source_id \notin DOMAIN cached_sources THEN FALSE
        ELSE check_needs_compiling_raw(source_path)

\* _check_needs_compiling (lines 76-93)
_check_needs_compiling(source_path) ==
    LET source_id == get_relative_path(source_path, contracts_folder)
    IN  IF source_id \notin DOMAIN cached_sources THEN TRUE
        ELSE LET cached_source == cached_sources[source_id]
                 cached_checksum == calculate_checksum(cached_source)
                 source_file == AbsolutePath(contracts_folder, source_path)
                 text == rstrip(read_text(source_file))
                 content == IF text # <<>> THEN Append(text, NL) ELSE <<>>
                 checksum == compute_checksum(content, cached_checksum.algorithm)
             IN  checksum # cached_checksum.hash

(***************************************************************************)
(* sources_needing_compilation (lines 51-67), one action per step.         *)
(***************************************************************************)
\* the active sources _check_needs_compiling reads: those with a cached id
\* (lines 79-89)
sources_read ==
    {p \in source_paths :
        get_relative_path(p, contracts_folder) \in DOMAIN cached_sources}

\* the sources read whose read_text raises (line 89)
unreadable_sources ==
    {p \in sources_read : ~can_read(AbsolutePath(contracts_folder, p))}

\* line 53 and 56-57: every read succeeds
Detect ==
    /\ pc = "detect"
    /\ unreadable_sources = {}
    /\ needs_compile' = {p \in source_paths : _check_needs_compiling(p)}
    /\ sources_to_check_refs' = needs_compile'
    /\ all_referenced_paths' = {}
    /\ pc' = "expand"
    /\ UNCHANGED <<fs, cached_manifest, cache_files, _contracts, buildNo, source_paths,
                   manifest, contract_types, srcs_to_compile,
                   compiled_contract_types, failed_paths, last>>

\* an abort that comes after the artifacts of the active sources and their
\* cache files were removed
DetectIOErrorAfterPruning ==
    /\ pc = "detect"
    /\ unreadable_sources # {}
    /\ pc' = "ioerror"
    /\ LET cts == cached_manifest.contract_types
           pruned == {n \in DOMAIN cts :
                        joinpath(contracts_folder, cts[n].source_id) \in source_paths}
       IN  /\ cached_manifest' =
                 [cached_manifest EXCEPT
                     !.contract_types = [n \in DOMAIN cts \ pruned |-> cts[n]]]
           /\ cache_files' = [n \in DOMAIN cache_files \ pruned |-> cache_files[n]]
    /\ UNCHANGED <<fs, _contracts, buildNo, source_paths, manifest, contract_types,
                   needs_compile, sources_to_check_refs, all_referenced_paths,
                   srcs_to_compile, compiled_contract_types, failed_paths, last>>

\* line 53 with a read_text that raises (line 89): the OSError leaves
\* sources_needing_compilation, _compile_sources (line 229) and create_manifest
DetectIOError ==
    /\ pc = "detect"
    /\ unreadable_sources # {}
    /\ pc' = "ioerror"
    /\ UNCHANGED <<fs, cached_manifest, cache_files, _contracts, buildNo, source_paths,
                   manifest, contract_types, needs_compile, sources_to_check_refs,
                   all_referenced_paths, srcs_to_compile, compiled_contract_types,
                   failed_paths, last>>

\* a work list that takes back every referenced path
WorkListPushingReferences(popped, refs) ==
    (sources_to_check_refs \ {popped}) \cup refs

\* sources_to_check_refs after pop() (line 59): nothing is added to it
WorkListAfterPop(popped, refs) ==
    sources_to_check_refs \ {popped}

\* one iteration of the while loop (lines 58-64)
ExpandStep ==
    /\ pc = "expand"
    /\ sources_to_check_refs # {}
    /\ \E popped \in sources_to_check_refs :
          LET source_id == get_relative_path(popped, contracts_folder)
              refs == reference_paths(source_id)
          IN  /\ sources_to_check_refs' = WorkListAfterPop(popped, refs)
              /\ all_referenced_paths' = all_referenced_paths \cup refs
              /\ needs_compile' = needs_compile \cup refs
    /\ UNCHANGED <<fs, cached_manifest, cache_files, _contracts, pc, buildNo,
                   source_paths, manifest, contract_types, srcs_to_compile,
                   compiled_contract_types, failed_paths, last>>

\* the loop ends (line 58), lines 66-67, and _compile_sources line 229
ExpandDone ==
    /\ pc = "expand"
    /\ sources_to_check_refs = {}
    /\ needs_compile' = needs_compile \cup all_referenced_paths
    /\ srcs_to_compile' = needs_compile'
    /\ pc' = "prune"
    /\ UNCHANGED <<fs, cached_manifest, cache_files, _contracts, buildNo,
                   source_paths, manifest, contract_types, sources_to_check_refs,
                   all_referenced_paths, compiled_contract_types, failed_paths,
                   last>>

(***************************************************************************)
(* BaseProject.create_manifest and BaseProject._compile                    *)
(***************************************************************************)
Names == {"N1", "N2"}

SourceIds(paths) == {get_relative_path(p, contracts_folder) : p \in paths}

Restrict(f, S) == [x \in S \cap DOMAIN f |-> f[x]]

\* an update that keeps the value a key already has
update_keeping_existing(f, g) ==
    [x \in DOMAIN f \cup DOMAIN g |-> IF x \in DOMAIN f THEN f[x] ELSE g[x]]

\* dict.update
Update(f, g) ==
    [x \in DOMAIN f \cup DOMAIN g |-> IF x \in DOMAIN g THEN g[x] ELSE f[x]]

\* a filter that drops the artifacts of every cached source
remaining_of_uncached_sources(a_manifest, active_sources) ==
    Restrict(a_manifest.contract_types,
             {name \in DOMAIN a_manifest.contract_types :
                 a_manifest.contract_types[name].source_id
                     \notin DOMAIN a_manifest.sources})

\* remaining_cached_contract_types (lines 37-49)
remaining_cached_contract_types(a_manifest, active_sources) ==
    LET cached_contract_types == a_manifest.contract_types
        deleted_source_ids == DOMAIN a_manifest.sources \ SourceIds(active_sources)
    IN  Restrict(cached_contract_types,
                 {name \in DOMAIN cached_contract_types :
                     cached_contract_types[name].source_id \notin deleted_source_ids})

\* self.source_paths without the excluded paths (lines 178-184)
ActiveSources(exclude) == {p \in Paths : is_file(p) /\ p \notin exclude}

\* create_manifest up to the call of _compile (lines 172-196)
StartBuild ==
    /\ pc \in Returned
    /\ buildNo < MaxBuilds
    /\ \E exclude \in SUBSET ProjectPaths, use_cache \in BOOLEAN :
          /\ source_paths' = ActiveSources(exclude)
          /\ manifest' = IF use_cache THEN cached_manifest ELSE EmptyManifest
          /\ _contracts' = IF use_cache THEN _contracts ELSE EmptyMap
          /\ contract_types' =
                remaining_cached_contract_types(manifest', source_paths')
    /\ buildNo' = buildNo + 1
    /\ pc' = "detect"
    /\ needs_compile' = {}
    /\ sources_to_check_refs' = {}
    /\ all_referenced_paths' = {}
    /\ srcs_to_compile' = {}
    /\ compiled_contract_types' = EmptyMap
    /\ failed_paths' = {}
    /\ UNCHANGED <<fs, cached_manifest, cache_files, last>>

\* the artifacts of the cached manifest that _compile_sources removes
\* (lines 233-242)
contracts_to_remove ==
    LET exising_contract_types == cached_manifest.contract_types
    IN  {n \in DOMAIN exising_contract_types :
            /\ exising_contract_types[n].source_id # "none"
            /\ joinpath(contracts_folder, exising_contract_types[n].source_id)
                   \in srcs_to_compile}

\* _compile_sources before the compile call (lines 233-261)
Prune ==
    /\ pc = "prune"
    /\ LET cts == cached_manifest.contract_types
           source_ids_to_remove == {cts[n].source_id : n \in contracts_to_remove}
           filtered_contract_types ==
               Restrict(cts, {n \in DOMAIN cts :
                                 cts[n].source_id \notin source_ids_to_remove})
       IN  /\ cache_files' =
                 Restrict(cache_files,
                          DOMAIN cache_files \ {cts[n].name : n \in contracts_to_remove})
           /\ cached_manifest' =
                 [cached_manifest EXCEPT !.contract_types = filtered_contract_types]
           /\ _contracts' = filtered_contract_types
    /\ pc' = "compile"
    /\ UNCHANGED <<fs, buildNo, source_paths, manifest, contract_types,
                   needs_compile, sources_to_check_refs, all_referenced_paths,
                   srcs_to_compile, compiled_contract_types, failed_paths, last>>

\* what compiler_manager.compile(paths) may return in build number n: named
\* artifacts, each of a source among paths
CompileResults(paths, n) ==
    {[name \in DOMAIN of |-> [name |-> name, source_id |-> of[name], payload |-> n]] :
        of \in UNION {[N -> SourceIds(paths)] : N \in SUBSET Names}}

\* the reference edges the compilers report for the active sources
ReferenceSets(targets) == {R \in SUBSET targets : Cardinality(R) <= MaxRefs}

\* the reference lists of the project's sources: none, or one project file
ProjectReferenceSets == {{}} \cup {{id} : id \in ProjectIds}

\* the edges reported for the sources of paths: no source refers to itself
ReferenceChoices(paths) ==
    {refs \in [SourceIds(paths) -> ProjectReferenceSets] :
        \A id \in SourceIds(paths) : id \notin refs[id]}

\* update_manifest_sources(source_paths, contracts_folder, contract_types, ...):
\* a source record with a fresh checksum and reference edges for every
\* source path, and the given contract types
update_manifest_sources(paths, cts, refs) ==
    [sources |->
        [id \in SourceIds(paths) |->
            [checksum |->
                [algorithm |-> "md5",
                 hash |-> compute_checksum(
                              CachedContent(read_text(joinpath(contracts_folder, id))),
                              "md5")],
             references |-> refs[id]]],
     contract_types |-> cts]

\* what the finished build leaves for the next one to compare with
Finished(outcome, failed) ==
    [outcome |-> outcome, srcs |-> srcs_to_compile, failed |-> failed,
     source_paths |-> source_paths, fs |-> fs,
     cached_manifest |-> cached_manifest', cache_files |-> cache_files']

\* the compile call returns (line 263); create_manifest lines 198-222
CompileOk ==
    /\ pc = "compile"
    /\ \E compiled \in CompileResults(srcs_to_compile, buildNo),
          refs \in ReferenceChoices(source_paths) :
          /\ compiled_contract_types' = compiled
          /\ contract_types' = Update(contract_types, compiled)
          /\ cached_manifest' =
                update_manifest_sources(source_paths, contract_types', refs)
          /\ cache_files' = Update(cache_files, compiled)
          /\ _contracts' = Update(_contracts, compiled)
    /\ pc' = "done"
    /\ last' = Finished("done", {})
    /\ UNCHANGED <<fs, buildNo, source_paths, manifest, needs_compile,
                   sources_to_check_refs, all_referenced_paths, srcs_to_compile,
                   failed_paths>>

\* the compile call raises for some of the paths (line 263): the exception
\* leaves create_manifest
CompileFail ==
    /\ pc = "compile"
    /\ UNCHANGED <<fs, cached_manifest, cache_files, _contracts, buildNo,
                   source_paths, manifest, contract_types, needs_compile,
                   sources_to_check_refs, all_referenced_paths, srcs_to_compile,
                   compiled_contract_types>>
    /\ \E failed \in SUBSET srcs_to_compile :
          /\ failed # {}
          /\ failed_paths' = failed
          /\ last' = Finished("failed", failed)
    /\ pc' = "failed"

(***************************************************************************)
(* The project's files change between builds.                              *)
(***************************************************************************)
WriteText(texts) ==
    /\ pc \in Returned
    /\ buildNo < MaxBuilds
    /\ \E p \in ProjectPaths, text \in texts :
          /\ fs[p] # File(text)
          /\ fs' = [fs EXCEPT ![p] = File(text)]
    /\ UNCHANGED <<cached_manifest, cache_files, _contracts, pc, buildNo,
                   source_paths, manifest, contract_types, needs_compile,
                   sources_to_check_refs, all_referenced_paths, srcs_to_compile,
                   compiled_contract_types, failed_paths, last>>

WriteFile == WriteText(EditTexts)

WriteBlankFile == WriteText(BlankTexts)

DeleteFile ==
    /\ pc \in Returned
    /\ buildNo < MaxBuilds
    /\ \E p \in ProjectPaths :
          /\ is_file(p)
          /\ fs' = [fs EXCEPT ![p] = NoFile]
    /\ UNCHANGED <<cached_manifest, cache_files, _contracts, pc, buildNo,
                   source_paths, manifest, contract_types, needs_compile,
                   sources_to_check_refs, all_referenced_paths, srcs_to_compile,
                   compiled_contract_types, failed_paths, last>>

\* a cached active source is removed after create_manifest listed the source
\* paths (lines 178-184) and before the change detector reads it (line 89)
DeleteFileDuringBuild ==
    /\ pc = "detect"
    /\ \E p \in sources_read :
          /\ is_file(p)
          /\ fs' = [fs EXCEPT ![p] = NoFile]
    /\ UNCHANGED <<cached_manifest, cache_files, _contracts, pc, buildNo,
                   source_paths, manifest, contract_types, needs_compile,
                   sources_to_check_refs, all_referenced_paths, srcs_to_compile,
                   compiled_contract_types, failed_paths, last>>

(***************************************************************************)
(* Spec: builds of a project from an empty cache, with edits in between.   *)
(***************************************************************************)
Init ==
    /\ fs = [p \in Paths |-> NoFile]
    /\ cached_manifest = EmptyManifest
    /\ cache_files = EmptyMap
    /\ _contracts = EmptyMap
    /\ pc = "idle"
    /\ buildNo = 0
    /\ source_paths = {}
    /\ manifest = EmptyManifest
    /\ contract_types = EmptyMap
    /\ needs_compile = {}
    /\ sources_to_check_refs = {}
    /\ all_referenced_paths = {}
    /\ srcs_to_compile = {}
    /\ compiled_contract_types = EmptyMap
    /\ failed_paths = {}
    /\ last = NoLast

Next ==
    \/ WriteFile
    \/ DeleteFile
    \/ StartBuild
    \/ Detect
    \/ ExpandStep
    \/ ExpandDone
    \/ Prune
    \/ CompileOk
    \/ CompileFail

Spec == Init /\ [][Next]_vars

\* the same builds of a project whose files may also be blank
NextBlank ==
    \/ Next
    \/ WriteBlankFile

SpecBlank == Init /\ [][NextBlank]_vars

\* the same builds of a project whose cached sources may become unreadable
\* while a build runs
NextIO ==
    \/ Next
    \/ DeleteFileDuringBuild
    \/ DetectIOError

SpecIO == Init /\ [][NextIO]_vars

(***************************************************************************)
(* SpecDetect: the change detector on two cached active sources with any   *)
(* contents, against one cached checksum of either algorithm.              *)
(***************************************************************************)
\* a cached source record as update_manifest_sources writes it, with the
\* checksum migrated to the given algorithm
CachedRecord(text, algorithm, refs) ==
    [checksum |-> [algorithm |-> algorithm,
                   hash |-> compute_checksum(CachedContent(text), algorithm)],
     references |-> refs]

\* every build local but the manifest and the source paths is empty
LocalsEmpty ==
    /\ cache_files = EmptyMap
    /\ _contracts = EmptyMap
    /\ contract_types = EmptyMap
    /\ needs_compile = {}
    /\ sources_to_check_refs = {}
    /\ all_referenced_paths = {}
    /\ srcs_to_compile = {}
    /\ compiled_contract_types = EmptyMap
    /\ failed_paths = {}
    /\ last = NoLast

InitDetect ==
    /\ \E tA \in Texts, tB \in Texts :
          fs = [p \in Paths |->
                   IF p = joinpath(contracts_folder, "A") THEN File(tA)
                   ELSE IF p = joinpath(contracts_folder, "B") THEN File(tB)
                   ELSE NoFile]
    /\ \E t \in Texts, algorithm \in Algorithms :
          cached_manifest =
              [sources |-> [id \in ProjectIds |-> CachedRecord(t, algorithm, {})],
               contract_types |-> EmptyMap]
    /\ manifest = cached_manifest
    /\ source_paths = ProjectPaths
    /\ pc = "detect"
    /\ buildNo = 1
    /\ LocalsEmpty

NextDetect == Detect

SpecDetect == InitDetect /\ [][NextDetect]_vars

\* line 53 has run and the loop has not popped yet
JustDetected == pc = "expand" /\ sources_to_check_refs = needs_compile

\* text without its trailing whitespace: the longest prefix that does not
\* end in a whitespace character
StripTrailing(text) ==
    LET k == CHOOSE k \in 0..Len(text) :
                 /\ k = 0 \/ text[k] \notin Whitespace
                 /\ \A j \in (k + 1)..Len(text) : text[j] \in Whitespace
    IN  SubSeq(text, 1, k)

\* stripped, and one newline re-appended when the stripped text is non-empty
Normalized(text) ==
    IF StripTrailing(text) = <<>> THEN <<>> ELSE StripTrailing(text) \o <<NL>>

\* the two texts differ only in trailing whitespace
SameButTrailingWhitespace(t1, t2) == StripTrailing(t1) = StripTrailing(t2)

\* C3: a cached active source is judged changed iff the checksum of its
\* normalized content, under the algorithm of its own cached record, differs
\* from the stored hash; contents that differ only in trailing whitespace
\* are judged the same, and "f " is unchanged against a checksum over "f\n".
C3_ChangedIffChecksumDiffers ==
    JustDetected =>
        /\ \A p \in source_paths :
              LET id == get_relative_path(p, contracts_folder)
              IN  id \in DOMAIN manifest.sources =>
                     ((p \in needs_compile) <=>
                        compute_checksum(Normalized(fs[p].text),
                                         manifest.sources[id].checksum.algorithm)
                            # manifest.sources[id].checksum.hash)
        /\ \A p \in source_paths, q \in source_paths :
              (/\ SourceIds({p, q}) \subseteq DOMAIN manifest.sources
               /\ manifest.sources[p[2]].checksum = manifest.sources[q[2]].checksum
               /\ SameButTrailingWhitespace(fs[p].text, fs[q].text))
              => ((p \in needs_compile) <=> (q \in needs_compile))
        /\ \A p \in source_paths :
              (/\ p[2] \in DOMAIN manifest.sources
               /\ fs[p].text = <<"f", " ">>
               /\ \E a \in Algorithms :
                     manifest.sources[p[2]].checksum =
                         [algorithm |-> a, hash |-> compute_checksum(<<"f", NL>>, a)])
              => p \notin needs_compile

\* "f " was checked against a sha256 checksum over "f\n", and "f" with it
C3_Witness ==
    /\ JustDetected
    /\ fs[joinpath(contracts_folder, "A")].text = <<"f", " ">>
    /\ fs[joinpath(contracts_folder, "B")].text = <<"g">>
    /\ manifest.sources["A"].checksum =
          [algorithm |-> "sha256", hash |-> compute_checksum(<<"f", NL>>, "sha256")]
    /\ needs_compile = {joinpath(contracts_folder, "B")}

\* the cached checksum of the source was produced from the content the file
\* has now
UnchangedSinceCached(p) ==
    /\ p[2] \in DOMAIN manifest.sources
    /\ manifest.sources[p[2]].checksum.hash =
           compute_checksum(CachedContent(fs[p].text),
                            manifest.sources[p[2]].checksum.algorithm)

\* C12: for every content, empty and whitespace-only included, the change
\* detector hashes the string the cached checksum was produced from (trailing
\* whitespace stripped, one newline appended), so a file unchanged since it
\* was cached is not judged changed.
C12_UnchangedNeverJudgedChanged ==
    JustDetected =>
        \A p \in source_paths :
           UnchangedSinceCached(p) =>
              /\ Normalized(fs[p].text) = CachedContent(fs[p].text)
              /\ p \notin needs_compile

(***************************************************************************)
(* SpecClosure: sources_needing_compilation on any cached reference graph  *)
(* over three sources, any files on disk and any active sources.           *)
(***************************************************************************)
PathA == joinpath(contracts_folder, "A")

PathB == joinpath(contracts_folder, "B")

PathC == joinpath(contracts_folder, "C")

InitClosure ==
    /\ fs \in [Paths -> {NoFile, File(<<"f">>), File(<<"g">>)}]
    /\ \E cached \in SUBSET Ids :
          \E refs \in [cached -> ReferenceSets(Ids)] :
             cached_manifest =
                 [sources |-> [id \in cached |-> CachedRecord(<<"f">>, "md5", refs[id])],
                  contract_types |-> EmptyMap]
    /\ manifest = cached_manifest
    /\ source_paths \in SUBSET {p \in Paths : is_file(p)}
    /\ pc = "detect"
    /\ buildNo = 1
    /\ LocalsEmpty

NextClosure ==
    \/ Detect
    \/ ExpandStep
    \/ ExpandDone

SpecClosure == InitClosure /\ [][NextClosure]_vars

\* the running property computes on: a started loop iteration is finished
FairSpecClosure == SpecClosure /\ WF_vars(NextClosure)

\* the active sources the change detector judges new or changed
NewOrChanged == {p \in source_paths : _check_needs_compiling(p)}

\* every path reached from S along cached reference edges to existing files
RECURSIVE ReferenceClosure(_)
ReferenceClosure(S) ==
    LET T == S \cup UNION {reference_paths(get_relative_path(p, contracts_folder)) :
                              p \in S}
    IN  IF T = S THEN S ELSE ReferenceClosure(T)

\* the cached record of id has exactly the reference edges to
Edges(id, to) ==
    id \in DOMAIN manifest.sources /\ manifest.sources[id].references = to

\* C1: the compilation set is the new/changed set united with everything
\* reachable from it through chains of cached reference edges to existing
\* files.
C1_CompilationSetIsClosure ==
    pc = "prune" => srcs_to_compile = ReferenceClosure(NewOrChanged)

\* C2: an active source whose id is not in the cached source map is in the
\* compilation set.
C2_NewFileCompiled ==
    \A p \in source_paths :
       get_relative_path(p, contracts_folder) \notin DOMAIN manifest.sources =>
          /\ pc = "expand" => p \in needs_compile
          /\ pc = "prune" => p \in srcs_to_compile

\* a new file with the content the cache holds for the others is compiled,
\* the cached unchanged source that references it is not
C2_Witness ==
    /\ pc = "prune"
    /\ DOMAIN manifest.sources = {"B", "C"}
    /\ Edges("B", {"A"})
    /\ source_paths = {PathA, PathB}
    /\ fs[PathA] = File(<<"f">>)
    /\ srcs_to_compile = {PathA}

\* cached edges A->B and B->A, B on disk, and only A new or changed
CycleCase ==
    /\ Edges("A", {"B"})
    /\ Edges("B", {"A"})
    /\ is_file(PathB)
    /\ NewOrChanged = {PathA}

\* C10: the work-list loop ends on every cached reference graph, and on the
\* cycle A->B, B->A with only A changed it ends with exactly {A, B}.
C10_ExpansionTerminates ==
    /\ <>(pc = "prune")
    /\ [](pc = "prune" /\ CycleCase => srcs_to_compile = {PathA, PathB})

\* the loop ended on the cycle
C10_Witness ==
    /\ pc = "prune"
    /\ CycleCase
    /\ srcs_to_compile = {PathA, PathB}

\* the paths the cached records of the sources in S refer to
ReferencedFrom(S) ==
    {joinpath(contracts_folder, t) :
        t \in UNION {manifest.sources[id].references :
                        id \in SourceIds(S) \cap DOMAIN manifest.sources}}

\* every path reached from S along cached reference edges, followed from
\* the referencing source to the referenced path
RECURSIVE ReachedAlongEdges(_)
ReachedAlongEdges(S) ==
    IF ReferencedFrom(S) \subseteq S THEN S
    ELSE ReachedAlongEdges(S \cup ReferencedFrom(S))

\* C13: every path of the compilation set is a new or changed active source,
\* or a file on disk reached from one along cached reference edges; a
\* referenced path with no file is not in it, and an unchanged source that
\* is not referenced is not in it, whatever it references itself.
C13_CompilationSetMembers ==
    pc = "prune" =>
        /\ srcs_to_compile \subseteq
              NewOrChanged \cup {p \in ReachedAlongEdges(NewOrChanged) : is_file(p)}
        /\ \A p \in ReferencedFrom(NewOrChanged) :
              ~is_file(p) => p \notin srcs_to_compile
        /\ \A p \in source_paths \ NewOrChanged :
              p \notin ReachedAlongEdges(NewOrChanged) => p \notin srcs_to_compile

\* the changed A refers to C, which has no file, and the unchanged B refers
\* to A: the loop ended with A alone
C13_Witness ==
    /\ pc = "prune"
    /\ source_paths = {PathA, PathB}
    /\ NewOrChanged = {PathA}
    /\ PathA[2] \in DOMAIN manifest.sources
    /\ Edges("A", {"C"})
    /\ ~is_file(PathC)
    /\ Edges("B", {"A"})
    /\ srcs_to_compile = {PathA}

(***************************************************************************)
(* Claims on the build pipeline (Spec).                                    *)
(***************************************************************************)
\* the running build reads the cache (use_cache) and the cache is as the
\* build before left it
ReadsCache == manifest = cached_manifest

\* the checksum update_manifest_sources stores for the file as it is now
FreshChecksum(id) ==
    [algorithm |-> "md5",
     hash |-> compute_checksum(CachedContent(fs[joinpath(contracts_folder, id)].text),
                               "md5")]

\* the artifacts of a manifest that come from the source id
ArtifactsOf(a_manifest, id) ==
    {n \in DOMAIN a_manifest.contract_types :
        a_manifest.contract_types[n].source_id = id}

\* C4: after a successful build, a second build with the same active sources
\* and the same file contents computes an empty compilation set.
C4_SecondBuildCompilesNothing ==
    (/\ pc = "prune"
     /\ ReadsCache
     /\ last.outcome = "done"
     /\ last.fs = fs
     /\ last.source_paths = source_paths)
    => srcs_to_compile = {}

\* C5: a source id of the cached source map whose file is not active has no
\* artifact and no source record in the manifest the build results in.
C5_DeletedSourceAbsent ==
    pc = "done" =>
        \A id \in DOMAIN manifest.sources \ SourceIds(source_paths) :
           /\ id \notin DOMAIN cached_manifest.sources
           /\ ArtifactsOf(cached_manifest, id) = {}

\* C6: every artifact of the resulting manifest whose source is in the
\* compilation set was returned by this build's compile call.
C6_NoStaleArtifactOfRecompiled ==
    pc = "done" =>
        \A n \in DOMAIN cached_manifest.contract_types :
           joinpath(contracts_folder, cached_manifest.contract_types[n].source_id)
               \in srcs_to_compile
           => /\ n \in DOMAIN compiled_contract_types
              /\ cached_manifest.contract_types[n] = compiled_contract_types[n]

\* the cached artifacts of active sources outside the compilation set
KeptArtifacts ==
    {n \in DOMAIN manifest.contract_types :
        /\ manifest.contract_types[n].source_id \in SourceIds(source_paths)
        /\ joinpath(contracts_folder, manifest.contract_types[n].source_id)
               \notin srcs_to_compile}

\* C7: a cached artifact of an active source outside the compilation set is
\* in the resulting manifest as cached, unless the compile call returned an
\* artifact of its name, which then takes its place.
C7_UnchangedArtifactsKept ==
    pc = "done" =>
        \A n \in KeptArtifacts :
           /\ n \in DOMAIN cached_manifest.contract_types
           /\ cached_manifest.contract_types[n] =
                 IF n \in DOMAIN compiled_contract_types
                 THEN compiled_contract_types[n]
                 ELSE manifest.contract_types[n]

\* the second build kept N1 of the unchanged A as the first build made it and
\* replaced N2 of A by the fresh N2 of the recompiled B
C7_Witness ==
    /\ pc = "done"
    /\ buildNo = 2
    /\ KeptArtifacts = {"N1", "N2"}
    /\ srcs_to_compile = {PathB}
    /\ manifest.contract_types["N2"].source_id = "A"
    /\ cached_manifest.contract_types["N1"] =
          [name |-> "N1", source_id |-> "A", payload |-> 1]
    /\ cached_manifest.contract_types["N2"] =
          [name |-> "N2", source_id |-> "B", payload |-> 2]

\* C8: when the compile call fails for some paths of the compilation set,
\* the resulting manifest has a fresh source entry for each path that
\* succeeded and no source entry or artifact for a path that failed.
C8_PartialFailureCommitted ==
    pc = "failed" =>
        /\ \A p \in srcs_to_compile \ failed_paths :
              /\ p[2] \in DOMAIN cached_manifest.sources
              /\ cached_manifest.sources[p[2]].checksum = FreshChecksum(p[2])
        /\ \A p \in failed_paths :
              /\ p[2] \notin DOMAIN cached_manifest.sources
              /\ ArtifactsOf(cached_manifest, p[2]) = {}

\* the active sources whose file differs from what the build before saw
ChangedSince == {p \in source_paths : fs[p] # last.fs[p]}

\* C9: the build after a failed one compiles exactly the paths that failed
\* and the sources changed since, and none that compiled then and is
\* unchanged.
C9_RetryOnlyFailed ==
    (/\ pc = "prune"
     /\ ReadsCache
     /\ last.outcome = "failed"
     /\ last.source_paths = source_paths)
    => /\ srcs_to_compile = last.failed \cup ChangedSince
       /\ srcs_to_compile \cap ((last.srcs \ last.failed) \ ChangedSince) = {}

\* the source ids of the cache the build reads that have no active source
DeletedSourceIds == DOMAIN manifest.sources \ SourceIds(source_paths)

\* the artifacts of a map whose source is in the compilation set
ArtifactsToRecompile(cts) ==
    {n \in DOMAIN cts :
        joinpath(contracts_folder, cts[n].source_id) \in srcs_to_compile}

\* C14: when the compile call is made, the artifact map of the cached
\* manifest holds no artifact of a deleted source and no artifact of a source
\* in the compilation set, and the cache files of the latter are removed.
C14_PrunedBeforeCompile ==
    pc = "compile" =>
        /\ \A n \in DOMAIN cached_manifest.contract_types :
              cached_manifest.contract_types[n].source_id \notin DeletedSourceIds
        /\ ArtifactsToRecompile(cached_manifest.contract_types) = {}
        /\ \A n \in ArtifactsToRecompile(manifest.contract_types) :
              n \notin DOMAIN cache_files

\* C15: after a successful build the resulting source map has an entry with
\* a fresh checksum and reference edges for every active source and for
\* every path of the compilation set, active or not.
C15_SourceMapCoversCompiled ==
    (pc = "done" /\ fs = last.fs) =>
        \A p \in source_paths \cup srcs_to_compile :
           /\ p[2] \in DOMAIN cached_manifest.sources
           /\ cached_manifest.sources[p[2]].checksum = FreshChecksum(p[2])
           /\ cached_manifest.sources[p[2]].references \subseteq Ids

\* C16: after a successful build every artifact the compile call returned
\* has a cache file of its name that holds it, and no step of a build writes
\* a cache file other than those: a cache file that appears or changes is
\* of an artifact returned by the compile call that just ended.
C16_CacheRecordPerCompiledArtifact ==
    /\ [](pc = "done" =>
             \A n \in DOMAIN compiled_contract_types :
                /\ n \in DOMAIN cache_files
                /\ cache_files[n] = compiled_contract_types[n]
                /\ cache_files[n].name = n)
    /\ [][\A n \in DOMAIN cache_files' :
             (n \notin DOMAIN cache_files \/ cache_files'[n] # cache_files[n]) =>
                /\ pc = "compile" /\ pc' = "done"
                /\ n \in DOMAIN compiled_contract_types'
                /\ cache_files'[n] = compiled_contract_types'[n]]_vars

\* the second build compiled B alone and wrote N2 over the cache file the
\* first build made for A, next to the N1 the first build left
C16_Witness ==
    /\ pc = "done"
    /\ buildNo = 2
    /\ srcs_to_compile = {PathB}
    /\ DOMAIN compiled_contract_types = {"N2"}
    /\ DOMAIN manifest.contract_types = {"N1", "N2"}
    /\ manifest.contract_types["N2"].source_id = "A"
    /\ DOMAIN cache_files = {"N1", "N2"}
    /\ cache_files["N1"] = [name |-> "N1", source_id |-> "A", payload |-> 1]
    /\ cache_files["N2"] = [name |-> "N2", source_id |-> "B", payload |-> 2]

\* C17: when the compile call raises, the artifact map of the cached
\* manifest and the set of cache files are what they were before the build,
\* which is how the build before left them.
C17_CompileRaiseLosesNothing ==
    [][(pc = "compile" /\ pc' = "failed") =>
          /\ cached_manifest'.contract_types = last.cached_manifest.contract_types
          /\ DOMAIN cache_files' = DOMAIN last.cache_files]_vars

\* C18: after every successful build, every artifact of the resulting
\* manifest has its source id among the keys of the resulting source map.
C18_ArtifactSourcesInSourceMap ==
    pc = "done" =>
        \A n \in DOMAIN cached_manifest.contract_types :
           cached_manifest.contract_types[n].source_id
               \in DOMAIN cached_manifest.sources

\* C19: after every successful build, every cache file on disk is named
\* after an artifact of the resulting manifest.
C19_NoOrphanCacheFile ==
    pc = "done" =>
        DOMAIN cache_files \subseteq DOMAIN cached_manifest.contract_types

(***************************************************************************)
(* Claims on a build whose change detection cannot read a source (SpecIO). *)
(***************************************************************************)
\* the active sources with a cached id whose file is not there to be read
CannotBeRead ==
    {p \in source_paths : p[2] \in DOMAIN manifest.sources /\ ~is_file(p)}

\* C11: when a cached active source cannot be read during change detection,
\* the build ends in an I/O error: detection never gets past the unreadable
\* source, so no source is judged, no compilation set is produced and the
\* compile call is not reached.
C11_UnreadableSourceAborts ==
    /\ pc \in {"expand", "prune", "compile"} => CannotBeRead = {}
    /\ pc = "ioerror" =>
          /\ needs_compile = {}
          /\ srcs_to_compile = {}
          /\ compiled_contract_types = EmptyMap
          /\ failed_paths = {}

\* the second build raised on the cached A, removed under it, next to the
\* cached and unchanged B
C11_Witness ==
    /\ pc = "ioerror"
    /\ buildNo = 2
    /\ source_paths = {PathA, PathB}
    /\ SourceIds(source_paths) \subseteq DOMAIN manifest.sources
    /\ CannotBeRead = {PathA}
    /\ ~_check_needs_compiling(PathB)

\* C20: when change detection aborts with an I/O error, nothing was pruned:
\* the source map and the artifact map of the cached manifest and the cache
\* files are what they were before the build, which is how the build before
\* left them.
C20_AbortBeforePruning ==
    pc = "ioerror" =>
        /\ cached_manifest.sources = last.cached_manifest.sources
        /\ cached_manifest.contract_types = last.cached_manifest.contract_types
        /\ cache_files = last.cache_files

\* the build raised on the cached A, removed under it, next to the changed
\* B: the artifacts N1 of A and N2 of B and their cache files are all there
C20_Witness ==
    /\ pc = "ioerror"
    /\ CannotBeRead = {PathA}
    /\ _check_needs_compiling(PathB)
    /\ DOMAIN cached_manifest.contract_types = {"N1", "N2"}
    /\ cached_manifest.contract_types["N1"].source_id = "A"
    /\ cached_manifest.contract_types["N2"].source_id = "B"
    /\ DOMAIN cache_files = {"N1", "N2"}

====
